---- MODULE Spec2Model ----
(***************************************************************************)
(* Mental Health Cluster Insight Tool (src/app.py).                        *)
(*                                                                         *)
(* The program is a Streamlit script: every user interaction re-executes  *)
(* the script from its first line to its last.  One action of this model  *)
(* is one such execution, triggered by one interaction.  The state is     *)
(* what survives between executions (the cache of load_artifacts and the  *)
(* widget values) together with what the last execution left behind (its  *)
(* module globals, the elements it put on the page, the PDF it built).    *)
(***************************************************************************)
EXTENDS Integers, Sequences, FiniteSets, TLC

VARIABLES
    cache,          \* st.cache_resource entry of load_artifacts: None or Some(triple)
    mca,            \* module global of the last run: None or Some(transformer)
    cluster_models, \* module global of the last run: None or Some(table)
    severity_map,   \* module global of the last run: None or Some(dict)
    user_name,      \* value of the text_input widget
    widget,         \* value of each selectbox widget, keyed by feature
    user_input,     \* the dict the last run built from the widgets
    clicked,        \* what st.button returned in the last run
    result,         \* (mdi, risk_band, cluster_id) of the last run: None or Some
    screen,         \* the elements the last run put on the page, in order
    pdf,            \* the buffer generate_pdf returned in the last run: None or Some
    loaded,         \* the artifact files joblib.load has returned, in the last load_artifacts call
    error           \* the exception that ended the last run, "none" if it ran through

vars == <<cache, mca, cluster_models, severity_map, user_name, widget,
          user_input, clicked, result, screen, pdf, loaded, error>>

----------------------------------------------------------------------------
(* Python values *)

\* Python's None and a present value, as sequences of length 0 and 1.
None == <<>>

Some(x) == <<x>>

\* The empty dict.
EmptyDict == [k \in {} |-> ""]

Range(s) == {s[i] : i \in DOMAIN s}

\* dict.get with the default of 0 whatever default is asked for.
GetZero(d, k, default) == IF k \in DOMAIN d THEN d[k] ELSE 0

\* dict.get(key, default)
Get(d, k, default) == IF k \in DOMAIN d THEN d[k] ELSE default

\* sum(...) over a sequence of integers
RECURSIVE SumSeq(_)
SumSeq(s) == IF s = <<>> THEN 0 ELSE Head(s) + SumSeq(Tail(s))

----------------------------------------------------------------------------
(* Feature definitions, src/app.py 31-49 *)

features ==
    <<"family_history", "treatment", "Growing_Stress", "Changes_Habits",
      "Mood_Swings", "Coping_Struggles", "Work_Interest", "Social_Weakness">>

core_symptoms ==
    <<"Growing_Stress", "Changes_Habits", "Mood_Swings",
      "Coping_Struggles", "Work_Interest", "Social_Weakness">>

(* UI question configuration, src/app.py 55-88 *)
question_config ==
    [family_history |->
        [question |-> "Is there a history of mental health concerns in your family?",
         options |-> <<"Yes", "No">>],
     treatment |->
        [question |-> "Are you currently receiving any mental health support or treatment?",
         options |-> <<"Yes", "No">>],
     Growing_Stress |->
        [question |-> "How would you describe your stress levels recently?",
         options |-> <<"Manageable", "Elevated", "Overwhelming">>],
     Changes_Habits |->
        [question |-> "Have you noticed changes in your daily habits (sleep, appetite, routine)?",
         options |-> <<"No noticeable changes", "Some changes", "Significant changes">>],
     Mood_Swings |->
        [question |-> "How frequently do you experience mood swings or emotional ups and downs?",
         options |-> <<"Rarely", "Sometimes", "Often">>],
     Coping_Struggles |->
        [question |-> "How well do you feel you are coping with everyday challenges?",
         options |-> <<"Coping well", "Struggling at times", "Struggling most of the time">>],
     Work_Interest |->
        [question |-> "How engaged do you feel with your work or daily responsibilities lately?",
         options |-> <<"Highly engaged", "Somewhat engaged", "Not engaged">>],
     Social_Weakness |->
        [question |-> "How socially connected do you feel compared to your usual self?",
         options |-> <<"As connected as usual", "Slightly less connected", "Much less connected">>]]

----------------------------------------------------------------------------
(* The three artifacts read by load_artifacts, src/app.py 18-25.  Their    *)
(* content is produced outside the program; the program only consumes it.  *)

ArtifactFiles ==
    <<"mca_transformer.joblib", "risk_band_cluster_models.joblib", "severity_map.joblib">>

\* Largest factor by which a candidate severity map scales its ordinal weights.
MaxScale == 1

Levels == 1..3

\* The answer labels of the survey data the artifacts were fitted on, which
\* a severity map carries whatever else it knows.
TrainingLabels == [Yes |-> 2, No |-> 0]

\* A candidate content of severity_map.joblib: a dict from option string to
\* integer weight.  Besides the training labels it knows the core-symptom
\* options whose position is in `known` and weighs the option at position l
\* with (l - 1) * scale; every other option string is absent from it.  The
\* candidates know the first k options of each question, k from 0 (none) to
\* 3 (all).
SeverityMapOf(known, scale) ==
    LET keys == {question_config[core_symptoms[i]].options[l] :
                    i \in DOMAIN core_symptoms, l \in known}
        pos(k) == CHOOSE l \in known :
                    \E i \in DOMAIN core_symptoms :
                        question_config[core_symptoms[i]].options[l] = k
    IN  [k \in keys \cup DOMAIN TrainingLabels |->
            IF k \in DOMAIN TrainingLabels THEN TrainingLabels[k]
            ELSE (pos(k) - 1) * scale]

SeverityMaps == {SeverityMapOf(1..k, scale) : k \in {0} \cup Levels, scale \in 1..MaxScale}

\* The content of mca_transformer.joblib: a transformer fitted on the
\* core-symptom columns, which knows the categories it was fitted on.
McaTransformer ==
    [columns |-> core_symptoms,
     categories |-> [c \in Range(core_symptoms) |-> question_config[c].options]]

\* The content of risk_band_cluster_models.joblib: one fitted clustering model
\* per risk band, with 2, 3 and 3 clusters.
ClusterModels ==
    [Low |-> [n_clusters |-> 2], Moderate |-> [n_clusters |-> 3], High |-> [n_clusters |-> 3]]

----------------------------------------------------------------------------
(* MDI and risk logic, src/app.py 94-103 *)

\* calculate_mdi summing over every feature.
ScoredColumnsAll == features

\* The columns calculate_mdi sums over.
ScoredColumns == core_symptoms

\* calculate_mdi with Work_Interest reverse-scored against the constant 3.
calculate_mdi_reversed(sev, input) ==
    SumSeq([i \in DOMAIN ScoredColumns |->
        IF ScoredColumns[i] = "Work_Interest"
        THEN 3 - Get(sev, input[ScoredColumns[i]], 1)
        ELSE Get(sev, input[ScoredColumns[i]], 1)])

\* calculate_mdi, given the severity map in force.
calculate_mdi(sev, input) ==
    SumSeq([i \in DOMAIN ScoredColumns |-> Get(sev, input[ScoredColumns[i]], 1)])

\* assign_risk_band with exclusive thresholds.
assign_risk_band_exclusive(mdi) ==
    IF mdi > 8 THEN "High"
    ELSE IF mdi > 4 THEN "Moderate"
    ELSE "Low"

\* assign_risk_band with the labels of the two upper bands exchanged.
assign_risk_band_swapped(mdi) ==
    IF mdi >= 8 THEN "Moderate"
    ELSE IF mdi >= 4 THEN "High"
    ELSE "Low"

assign_risk_band(mdi) ==
    IF mdi >= 8 THEN "High"
    ELSE IF mdi >= 4 THEN "Moderate"
    ELSE "Low"

\* diagnosis_map without its entry for the High band.
diagnosis_map_no_high ==
    [Low |-> "Your responses suggest stable emotional well-being with healthy coping patterns.",
     Moderate |-> "Your responses indicate ongoing stress that may be affecting balance and daily energy."]

(* Diagnosis and suggestions, src/app.py 109-143 *)
diagnosis_map ==
    [Low |-> "Your responses suggest stable emotional well-being with healthy coping patterns.",
     Moderate |-> "Your responses indicate ongoing stress that may be affecting balance and daily energy.",
     High |-> "Your responses reflect significant emotional strain that may be overwhelming your current coping capacity."]

suggestions_map ==
    [Low |->
        <<"Maintain consistent sleep and daily routines.",
          "Continue activities that help you relax or feel fulfilled.",
          "Stay socially connected with people you trust.",
          "Practice occasional self-reflection or journaling.",
          "Maintain healthy work-life boundaries.",
          "Respond early when stress levels begin to rise.">>,
     Moderate |->
        <<"Break daily tasks into smaller, manageable steps.",
          "Schedule at least one restorative break each day.",
          "Reduce non-essential commitments temporarily.",
          "Engage in light physical activity such as walking.",
          "Practice grounding or breathing exercises.",
          "Talk openly with a trusted friend or family member.",
          "Re-establish consistent sleep and meal routines.">>,
     High |->
        <<"Prioritize rest and reduce mental overload wherever possible.",
          "Seek support from a trusted person instead of coping alone.",
          "Use grounding techniques such as slow breathing or sensory focus.",
          "Avoid major decisions while feeling emotionally overwhelmed.",
          "Create predictable daily structure using small routines.",
          "Limit exposure to unnecessary stressors.",
          "Consider reaching out to a mental health professional.",
          "Spend time in calming environments.">>]

\* color_map of the button handler, src/app.py 225-229
color_map == [Low |-> "#2ecc71", Moderate |-> "#f1c40f", High |-> "#e74c3c"]

----------------------------------------------------------------------------
(* Cluster prediction, src/app.py 149-160 *)

\* What a call leaves: the exception it raised ("none" if it returned) and
\* the value it returned (None if it raised).
Returned(v) == [raised |-> "none", value |-> Some(v)]

Raised(e) == [raised |-> e, value |-> None]

\* mca.transform(df[columns]): one component per column, the position of the
\* answer among the categories the transformer was fitted on, and NaN (None)
\* for an answer it was not fitted on.  A column set other than the fitted
\* one is refused.
McaTransform(m, columns, row) ==
    IF columns # m.columns THEN Raised("ValueError")
    ELSE Returned([i \in DOMAIN columns |->
            LET cats == m.categories[columns[i]]
                hit == {l \in DOMAIN cats : cats[l] = row[columns[i]]}
            IN  IF hit = {} THEN None ELSE Some(CHOOSE l \in hit : TRUE)])

\* .fillna(0)
Fillna(X, v) == [i \in DOMAIN X |-> IF X[i] = None THEN v ELSE X[i][1]]

\* X_mca.iloc[:, :3] *= 2
Reweight(X) == [i \in DOMAIN X |-> IF i <= 3 THEN X[i] * 2 ELSE X[i]]

\* model.predict(X)[0]: a fixed function of the vector into the model's labels.
ModelPredict(model, X) == SumSeq(X) % model.n_clusters

\* predict_cluster, given the artifacts in force.
predict_cluster(m, models, sev, input) ==
    IF ~(Range(ScoredColumns) \cup Range(core_symptoms) \subseteq DOMAIN input)
    THEN Raised("KeyError")
    ELSE
    LET mdi == calculate_mdi(sev, input)
        risk_band == assign_risk_band(mdi)
        encoded == McaTransform(m, core_symptoms, input)
    IN  IF encoded.raised # "none" THEN Raised(encoded.raised)
        ELSE IF risk_band \notin DOMAIN models THEN Raised("KeyError")
        ELSE LET X_mca == Reweight(Fillna(encoded.value[1], 0))
                 model == models[risk_band]
                 cluster_id == ModelPredict(model, X_mca)
             IN  Returned([mdi |-> mdi, risk_band |-> risk_band, cluster_id |-> cluster_id])

----------------------------------------------------------------------------
(* PDF generator, src/app.py 166-206 *)

\* c.drawString(x, y, text) in the font set last; text is the f-string fmt
\* with args in its fields.
DrawString(font, size, x, y, fmt, args) ==
    [font |-> font, size |-> size, x |-> x, y |-> y, fmt |-> fmt, args |-> args]

\* The suggestion lines, 15 apart from y down.
SuggestionLines(suggestions, y) ==
    [i \in DOMAIN suggestions |->
        DrawString("Helvetica", 11, 60, y - 15 * (i - 1), "- {s}", <<suggestions[i]>>)]

\* generate_pdf: the drawString calls, in order.  The timestamp is the
\* field {now} of its line.
generate_pdf(name, risk_band, diagnosis, suggestions) ==
    LET y0 == 750
        title == <<DrawString("Helvetica-Bold", 20, 50, y0, "Mental Well-Being Report", <<>>)>>
        y1 == y0 - 40
        prepared == IF name # ""
                    THEN <<DrawString("Helvetica", 12, 50, y1, "Prepared For: {user_name}", <<name>>)>>
                    ELSE <<>>
        y2 == IF name # "" THEN y1 - 20 ELSE y1
        date == <<DrawString("Helvetica", 12, 50, y2, "Date Generated: {now}", <<"now">>)>>
        y3 == y2 - 30
        level == <<DrawString("Helvetica-Bold", 14, 50, y3, "Risk Level: {risk_band}", <<risk_band>>)>>
        y4 == y3 - 20
        diag == <<DrawString("Helvetica", 12, 50, y4, "{diagnosis}", <<diagnosis>>)>>
        y5 == y4 - 30
        head == <<DrawString("Helvetica-Bold", 13, 50, y5, "Recommended Activities", <<>>)>>
        y6 == y5 - 20
        foot == <<DrawString("Helvetica", 9, 50, 40, "Disclaimer: This is not a medical diagnosis.", <<>>)>>
    IN  title \o prepared \o date \o level \o diag \o head
        \o SuggestionLines(suggestions, y6) \o foot

----------------------------------------------------------------------------
(* Artifact loading, src/app.py 18-25 *)

\* The files joblib.load returns before the first one that cannot be read.
RECURSIVE LoadedFiles(_, _)
LoadedFiles(files, readable) ==
    IF files = <<>> \/ Head(files) \notin readable THEN {}
    ELSE {Head(files)} \cup LoadedFiles(Tail(files), readable)

\* load_artifacts that returns the triple whether or not the files could be read.
load_artifacts_lenient(readable, sev) ==
    Returned([mca |-> McaTransformer, cluster_models |-> ClusterModels, severity_map |-> sev])

\* load_artifacts: the three joblib.load calls in order, then the triple.
\* `readable` are the files that can be read now, `sev` what the severity
\* file holds.
load_artifacts(readable, sev) ==
    IF ArtifactFiles[1] \notin readable THEN Raised("LoadError")
    ELSE IF ArtifactFiles[2] \notin readable THEN Raised("LoadError")
    ELSE IF ArtifactFiles[3] \notin readable THEN Raised("LoadError")
    ELSE Returned([mca |-> McaTransformer, cluster_models |-> ClusterModels,
                   severity_map |-> sev])

----------------------------------------------------------------------------
(* The page, src/app.py 212-268 *)

\* One element on the page: its kind, its text with {fields}, the field values.
El(kind, fmt, args) == [kind |-> kind, fmt |-> fmt, args |-> args]

\* The error box Streamlit shows for the exception that ends a run.
ExceptionBox(e) == <<El("exception", e, <<>>)>>

\* st.selectbox: the value held for the widget, the first option when the
\* widget holds none of its options.
Selectbox(cfg, held) == IF held \in Range(cfg.options) THEN held ELSE cfg.options[1]

\* The collection loop asking about the core symptoms only.
InputFeaturesCore == core_symptoms

\* The features the collection loop asks about.
InputFeatures == features

\* user_input as the loop of lines 217-220 builds it.
BuildUserInput(sel) ==
    [f \in Range(InputFeatures) |-> Selectbox(question_config[f], sel[f])]

\* Lines 212-222: title, rule, name field, one selectbox per feature, button.
Form(name, input) ==
    <<El("markdown", "<h1 style='text-align:center;'>Mental Health Cluster Insight Tool</h1>", <<>>),
      El("markdown", "<hr>", <<>>),
      El("text_input", "Enter your name (optional)", <<name>>)>>
    \o [i \in DOMAIN InputFeatures |->
          El("selectbox", question_config[InputFeatures[i]].question,
             <<input[InputFeatures[i]]>>)]
    \o <<El("button", "Generate My Well-Being Insights", <<>>)>>

\* Lines 263-268.
Footer ==
    <<El("markdown", "<hr>", <<>>),
      El("markdown", "<small><b>Disclaimer:</b> This tool provides general well-being insights only. It is not a medical diagnosis.</small>", <<>>)>>

\* The banner of lines 231-240: a div in the band's color stating the band.
RiskLevelFmt == "<div style=background-color:{color}>Risk Level: {risk_band}</div>"

\* What a run leaves behind.
Outcome(scr, res, doc, err) == [screen |-> scr, result |-> res, pdf |-> doc, error |-> err]

\* Lines 222-261, the body of `if st.button(...)`, after the form `form` has
\* been put on the page.  pdf_ok tells whether generate_pdf returns rather
\* than raises.
Handler(form, name, input, m, models, sev, pdf_ok) ==
    LET call == predict_cluster(m, models, sev, input)
    IN  IF call.raised # "none"
        THEN Outcome(form \o ExceptionBox(call.raised), None, None, call.raised)
        ELSE
        LET r == call.value[1]
            band == r.risk_band
        IN  IF band \notin DOMAIN color_map
            THEN Outcome(form \o ExceptionBox("KeyError"), Some(r), None, "KeyError")
            ELSE
            LET s1 == form
                      \o <<El("markdown", RiskLevelFmt, <<color_map[band], band>>),
                           El("subheader", "Assessment Summary", <<>>)>>
            IN  IF band \notin DOMAIN diagnosis_map
                THEN Outcome(s1 \o ExceptionBox("KeyError"), Some(r), None, "KeyError")
                ELSE
                LET s2 == s1 \o <<El("write", "{diagnosis}", <<diagnosis_map[band]>>),
                                  El("subheader", "Suggested Activities", <<>>)>>
                IN  IF band \notin DOMAIN suggestions_map
                    THEN Outcome(s2 \o ExceptionBox("KeyError"), Some(r), None, "KeyError")
                    ELSE
                    LET s3 == s2 \o [i \in DOMAIN suggestions_map[band] |->
                                        El("write", "* {s}", <<suggestions_map[band][i]>>)]
                    IN  IF ~pdf_ok
                        THEN Outcome(s3 \o ExceptionBox("PdfError"), Some(r), None, "PdfError")
                        ELSE Outcome(
                                s3 \o <<El("download_button", "Download My Wellness Report (PDF)",
                                           <<"Wellness_Report.pdf", "application/pdf">>)>>
                                   \o Footer,
                                Some(r),
                                Some(generate_pdf(name, band, diagnosis_map[band],
                                                  suggestions_map[band])),
                                "none")

\* One execution of the script: name and sel are the widget values it finds,
\* btn whether the button was just clicked.  The other parameters are what
\* the environment does during the run.
Script(name, sel, btn, readable, sev, pdf_ok) ==
    \E load \in {IF cache # None THEN Returned(cache[1]) ELSE load_artifacts(readable, sev)} :
        /\ user_name' = name
        /\ widget' = sel
        /\ loaded' = IF cache # None THEN loaded ELSE LoadedFiles(ArtifactFiles, readable)
        /\ IF load.raised # "none"
           THEN \* line 25 raises: nothing after it runs
                /\ cache' = cache
                /\ mca' = None
                /\ cluster_models' = None
                /\ severity_map' = None
                /\ user_input' = EmptyDict
                /\ clicked' = FALSE
                /\ result' = None
                /\ pdf' = None
                /\ screen' = ExceptionBox(load.raised)
                /\ error' = load.raised
           ELSE \E art \in {load.value[1]} : \E input \in {BuildUserInput(sel)} :
                \E out \in {IF btn
                             THEN Handler(Form(name, input), name, input, art.mca,
                                          art.cluster_models, art.severity_map, pdf_ok)
                             ELSE Outcome(Form(name, input) \o Footer, None, None, "none")} :
                    /\ cache' = load.value
                    /\ mca' = Some(art.mca)
                    /\ cluster_models' = Some(art.cluster_models)
                    /\ severity_map' = Some(art.severity_map)
                    /\ user_input' = input
                    /\ clicked' = btn
                    /\ result' = out.result
                    /\ pdf' = out.pdf
                    /\ screen' = out.screen
                    /\ error' = out.error

\* A run under every behaviour of the environment: which artifact files can
\* be read and what the severity file holds (when nothing is cached yet),
\* and whether the PDF library raises (when the button was clicked).
Rerun(name, sel, btn) ==
    \E readable \in (IF cache = None THEN SUBSET Range(ArtifactFiles) ELSE {Range(ArtifactFiles)}),
       sev \in (IF cache = None THEN SeverityMaps ELSE {cache[1].severity_map}),
       pdf_ok \in (IF btn THEN BOOLEAN ELSE {TRUE}) :
        Script(name, sel, btn, readable, sev, pdf_ok)

----------------------------------------------------------------------------
(* Sessions and interactions *)

\* The names typed into the name field.
Names == {"", "Ann"}

\* A selectbox starts on its first option.
Defaults == [f \in Range(features) |-> question_config[f].options[1]]

Shown(kind) == kind \in {screen[i].kind : i \in DOMAIN screen}

Init ==
    /\ cache = None
    /\ mca = None
    /\ cluster_models = None
    /\ severity_map = None
    /\ user_name = ""
    /\ widget = Defaults
    /\ user_input = EmptyDict
    /\ clicked = FALSE
    /\ result = None
    /\ screen = <<>>
    /\ pdf = None
    /\ loaded = {}
    /\ error = "none"

\* The page is opened or reloaded: a run with every widget at its default.
Open == Rerun("", Defaults, FALSE)

\* The user types a name.
SetName == Shown("text_input") /\ \E n \in Names : n # user_name /\ Rerun(n, widget, FALSE)

\* The user picks another option of a selectbox.
Select ==
    /\ Shown("selectbox")
    /\ \E f \in Range(features) : \E o \in Range(question_config[f].options) :
        /\ o # widget[f]
        /\ Rerun(user_name, [widget EXCEPT ![f] = o], FALSE)

\* The user clicks "Generate My Well-Being Insights".
ClickGenerate == Shown("button") /\ Rerun(user_name, widget, TRUE)

\* The user clicks the download button: the file is served and the script reruns.
ClickDownload == Shown("download_button") /\ Rerun(user_name, widget, FALSE)

Next == Open \/ SetName \/ Select \/ ClickGenerate \/ ClickDownload

Spec == Init /\ [][Next]_vars

----------------------------------------------------------------------------
(* Vocabulary of the properties *)

Bands == {"Low", "Moderate", "High"}

\* The order Low < Moderate < High.
Rank(band) == CASE band = "Low" -> 0 [] band = "Moderate" -> 1 [] band = "High" -> 2

\* Every index a submission can have lies in 0..MaxMdi: six answers, each
\* weighing at most (3 - 1) * MaxScale.
MaxMdi == Len(core_symptoms) * (Cardinality(Levels) - 1) * MaxScale

MdiRange == (0 - 1) .. (MaxMdi + 1)

\* The weight of an option under a severity map: its entry, 1 without one.
Weight(sev, o) == IF o \in DOMAIN sev THEN sev[o] ELSE 1

\* The other five core symptoms' weights, summed.
OtherSum(sev, input) ==
    SumSeq([i \in DOMAIN core_symptoms |->
        IF core_symptoms[i] = "Work_Interest" THEN 0 ELSE Weight(sev, input[core_symptoms[i]])])

WorkInterestOptions == Range(question_config["Work_Interest"].options)

\* The positions on the page of what the button handler reports.
RiskLevelShown == {i \in DOMAIN screen : screen[i].kind = "markdown" /\ screen[i].fmt = RiskLevelFmt}

SummaryShown == {i \in DOMAIN screen : screen[i].kind = "write" /\ screen[i].fmt = "{diagnosis}"}

SuggestionsShown == {i \in DOMAIN screen : screen[i].kind = "write" /\ screen[i].fmt = "* {s}"}

DownloadShown == {i \in DOMAIN screen : screen[i].kind = "download_button"}

AllArtifactsLoaded ==
    /\ loaded = Range(ArtifactFiles)
    /\ cache # None
    /\ mca # None
    /\ cluster_models # None
    /\ severity_map # None

----------------------------------------------------------------------------
(* Properties *)

\* C1: assign_risk_band is a two-threshold step function with inclusive lower
\* bounds: High exactly when the index is >= 8, Moderate exactly when it is
\* in 4..7, Low exactly when it is < 4; this holds of the band of every
\* submission and, beside it, of every index in range.
C1_StepFunction ==
    result # None =>
        /\ result[1].mdi \in 0..MaxMdi
        /\ result[1].risk_band = "High" <=> result[1].mdi >= 8
        /\ result[1].risk_band = "Moderate" <=> (4 =< result[1].mdi /\ result[1].mdi < 8)
        /\ result[1].risk_band = "Low" <=> result[1].mdi < 4
        /\ \A m \in MdiRange :
            /\ assign_risk_band(m) = "High" <=> m >= 8
            /\ assign_risk_band(m) = "Moderate" <=> (4 =< m /\ m < 8)
            /\ assign_risk_band(m) = "Low" <=> m < 4

\* A submission whose index is exactly the threshold 8 and whose band is High.
C1_Witness == result # None /\ result[1].mdi = 8 /\ result[1].risk_band = "High"

\* C2: the band is monotonic non-decreasing in the risk index: against the
\* index and band of any submission, no higher index has a lower band and no
\* lower index has a higher band, be it the index of the answer set that
\* differs from the submitted one in one core answer or any index in range.
C2_Monotonic ==
    result # None =>
        /\ result[1].mdi \in 0..MaxMdi
        /\ \A m \in MdiRange :
            /\ m >= result[1].mdi => Rank(assign_risk_band(m)) >= Rank(result[1].risk_band)
            /\ m =< result[1].mdi => Rank(assign_risk_band(m)) =< Rank(result[1].risk_band)
        /\ \A c \in Range(core_symptoms) : \A o \in Range(question_config[c].options) :
            LET b == calculate_mdi(severity_map[1], [user_input EXCEPT ![c] = o])
            IN  /\ b \in 0..MaxMdi
                /\ b >= result[1].mdi =>
                     Rank(assign_risk_band(b)) >= Rank(result[1].risk_band)
                /\ b =< result[1].mdi =>
                     Rank(assign_risk_band(b)) =< Rank(result[1].risk_band)

\* A Moderate submission right below the threshold of High.
C2_Witness == result # None /\ result[1].mdi = 7 /\ result[1].risk_band = "Moderate"

\* C3: an option absent from the severity map raises nothing: it counts 1,
\* the recognised options count their weight, scoring returns an integer and
\* a band is assigned.
C3_UnrecognisedDefault ==
    /\ clicked => result # None /\ error # "KeyError"
    /\ result # None =>
        LET sev == severity_map[1]
            known == {i \in DOMAIN core_symptoms : user_input[core_symptoms[i]] \in DOMAIN sev}
        IN  /\ result[1].mdi \in Int
            /\ result[1].mdi =
                 SumSeq([i \in DOMAIN core_symptoms |->
                            IF i \in known THEN sev[user_input[core_symptoms[i]]] ELSE 0])
                 + Cardinality(DOMAIN core_symptoms \ known)
            /\ result[1].risk_band \in Bands

\* A scored submission with both recognised and unrecognised answers.
C3_Witness ==
    /\ result # None
    /\ \E c \in Range(core_symptoms) : user_input[c] \notin DOMAIN severity_map[1]
    /\ \E c \in Range(core_symptoms) : user_input[c] \in DOMAIN severity_map[1]

\* C4 as stated: there is a constant c such that Work_Interest contributes
\* c minus its severity to the index, whichever option is answered.
C4_ReversedPolarity ==
    result # None =>
        LET sev == severity_map[1]
        IN  \E c \in 0..(2 * MaxMdi) :
                /\ result[1].mdi = OtherSum(sev, user_input)
                                   + (c - Weight(sev, user_input["Work_Interest"]))
                /\ \A o \in WorkInterestOptions :
                     calculate_mdi(sev, [user_input EXCEPT !["Work_Interest"] = o])
                        = OtherSum(sev, user_input) + (c - Weight(sev, o))

\* C4 amended: the index is the plain sum of the six core symptoms' weights;
\* Work_Interest contributes its own severity, added like the others.
C4_PlainSum ==
    result # None =>
        LET sev == severity_map[1]
        IN  /\ result[1].mdi = OtherSum(sev, user_input)
                               + Weight(sev, user_input["Work_Interest"])
            /\ \A o \in WorkInterestOptions :
                 calculate_mdi(sev, [user_input EXCEPT !["Work_Interest"] = o])
                    = OtherSum(sev, user_input) + Weight(sev, o)

\* A scored submission answering "Not engaged", which the map weighs 2 or more.
C4_Witness ==
    /\ result # None
    /\ user_input["Work_Interest"] = "Not engaged"
    /\ Weight(severity_map[1], "Not engaged") >= 2

\* C5: a submission shows the complete report (risk level, summary,
\* suggestions, download button with its PDF) or nothing of it; a run that
\* an exception ended shows nothing of it.
C5_NoPartialResult ==
    clicked =>
        \/ /\ error = "none"
           /\ result # None
           /\ pdf # None
           /\ RiskLevelShown # {}
           /\ SummaryShown # {}
           /\ SuggestionsShown # {}
           /\ DownloadShown # {}
        \/ /\ pdf = None
           /\ RiskLevelShown = {}
           /\ SummaryShown = {}
           /\ SuggestionsShown = {}
           /\ DownloadShown = {}

\* C6: nothing runs on a partial load.  The three globals are set together
\* or not at all; the cache holds only a triple whose three files were
\* read; the form, predict_cluster and the report are reached only with all
\* three loaded; a run whose load failed shows the exception and nothing
\* else, and so does every run for as long as not all three have been read.
C6_NoPartialInit ==
    /\ (mca = None) = (cluster_models = None)
    /\ (mca = None) = (severity_map = None)
    /\ cache # None => loaded = Range(ArtifactFiles)
    /\ (clicked \/ result # None \/ pdf # None \/ Len(screen) > 1) => AllArtifactsLoaded
    /\ error = "LoadError" =>
        /\ loaded # Range(ArtifactFiles)
        /\ cache = None
        /\ mca = None
    /\ loaded # Range(ArtifactFiles) =>
        /\ ~clicked
        /\ result = None
        /\ pdf = None
        /\ screen \in {<<>>, ExceptionBox("LoadError")}

\* A run whose third load failed after the first two files were read.
C6_Witness ==
    /\ error = "LoadError"
    /\ loaded = {ArtifactFiles[1], ArtifactFiles[2]}
    /\ screen = ExceptionBox("LoadError")

\* C7: the report carries the band and the risk index: the PDF and the page
\* state the band predict_cluster returned, and the PDF states the index.
C7_ReportCarriesBandAndIndex ==
    pdf # None =>
        /\ \E i \in DOMAIN pdf[1] :
            /\ pdf[1][i].fmt = "Risk Level: {risk_band}"
            /\ pdf[1][i].args = <<result[1].risk_band>>
        /\ \A i \in RiskLevelShown : screen[i].args[2] = result[1].risk_band
        /\ \E i \in DOMAIN pdf[1] : ToString(result[1].mdi) \in Range(pdf[1][i].args)

\* C8: every band assign_risk_band returns has its entry in diagnosis_map,
\* suggestions_map, color_map and the cluster model table, every cluster id
\* is one of that band's model, and no run ends in a missing key.
C8_LookupsExhaustive ==
    /\ error # "KeyError"
    /\ cluster_models # None =>
        \A m \in MdiRange :
            /\ assign_risk_band(m) \in DOMAIN diagnosis_map
            /\ assign_risk_band(m) \in DOMAIN suggestions_map
            /\ assign_risk_band(m) \in DOMAIN color_map
            /\ assign_risk_band(m) \in DOMAIN cluster_models[1]
    /\ result # None =>
        /\ result[1].risk_band \in
             DOMAIN diagnosis_map \cap DOMAIN suggestions_map \cap DOMAIN color_map
                \cap DOMAIN cluster_models[1]
        /\ result[1].cluster_id \in 0..(cluster_models[1][result[1].risk_band].n_clusters - 1)
        /\ error = "none" => SummaryShown # {} /\ SuggestionsShown # {}

\* A complete report for the High band and its model's last cluster.
C8_Witness ==
    /\ result # None
    /\ error = "none"
    /\ result[1].risk_band = "High"
    /\ result[1].cluster_id = 2

\* C9: whenever the button handler scores, the answer set has exactly the 8
\* feature keys and every value is one of its question's options.
C9_AnswerSetComplete ==
    (clicked \/ result # None) =>
        /\ DOMAIN user_input = Range(features)
        /\ Cardinality(DOMAIN user_input) = 8
        /\ \A f \in DOMAIN user_input : user_input[f] \in Range(question_config[f].options)

\* A submission scored after the name and several answers were changed.
C9_Witness ==
    /\ clicked
    /\ result # None
    /\ user_name = "Ann"
    /\ user_input["treatment"] = "No"
    /\ user_input["Social_Weakness"] = "Much less connected"
    /\ user_input["Mood_Swings"] = "Sometimes"

\* C10: the triple depends on the six core answers only: with any other
\* family_history and treatment answers, or without them, predict_cluster
\* returns the same triple; its band is the band of its index and its
\* cluster id a label of that band's model.
C10_CoreAnswersOnly ==
    result # None =>
        /\ \A fh \in Range(question_config["family_history"].options),
              tr \in Range(question_config["treatment"].options) :
            predict_cluster(mca[1], cluster_models[1], severity_map[1],
                            [user_input EXCEPT !["family_history"] = fh, !["treatment"] = tr])
                = Returned(result[1])
        /\ predict_cluster(mca[1], cluster_models[1], severity_map[1],
                           [c \in Range(core_symptoms) |-> user_input[c]])
                = Returned(result[1])
        /\ result[1].risk_band = assign_risk_band(result[1].mdi)
        /\ result[1].cluster_id \in 0..(cluster_models[1][result[1].risk_band].n_clusters - 1)

\* A submission with both non-core answers changed from their defaults.
C10_Witness ==
    /\ result # None
    /\ user_input["family_history"] = "No"
    /\ user_input["treatment"] = "No"
    /\ result[1].cluster_id = 2

====
